---- MODULE Spec2Model ----
(***************************************************************************)
(* Iron Track workout logging servers (src/backend/workout_server.py and   *)
(* src/workout_server.py) over the external relational store.              *)
(*                                                                         *)
(* The store is three tables (workouts, exercises, sets); a row's id is    *)
(* the store's serial key.  A log-workout request is a handler whose every *)
(* store call is one step, so that concurrent requests interleave at the   *)
(* granularity of store calls.  The read endpoints are single steps.       *)
(***************************************************************************)
EXTENDS Integers, Sequences, FiniteSets, TLC

(***************************************************************************)
(* Bounds of the model.                                                    *)
(***************************************************************************)
\* Number of log-workout requests that get as far as the store.
MaxLogs == 2

\* Calendar dates are day numbers 1..MaxDate; their order is the order of
\* the ISO "YYYY-MM-DD" strings the program compares.
MaxDate == 2

Dates == 1 .. MaxDate

\* Request slots: at most two log-workout requests are in flight at once.
Procs == {"r1", "r2"}

(***************************************************************************)
(* Python values.                                                          *)
(***************************************************************************)
\* None / SQL NULL, and a present value, of a nullable column.
Null == << >>
Some(v) == << v >>

\* dict.get(key, default)
Get(d, k, dflt) == IF k \in DOMAIN d THEN d[k] ELSE dflt

\* A dict without keys.
EmptyDict == [k \in {} |-> 0]

\* Strings that the program transforms are sequences of characters.
IsSpace(c) == c = " "

ToUpper(c) == CASE c = "b" -> "B" [] c = "p" -> "P" [] OTHER -> c

ToLower(c) == CASE c = "B" -> "b" [] c = "P" -> "p" [] OTHER -> c

IsCased(c) == c \in {"b", "p", "B", "P"}

\* str.strip()
RECURSIVE Strip(_)
Strip(s) ==
    IF s = << >> THEN s
    ELSE IF IsSpace(Head(s)) THEN Strip(Tail(s))
    ELSE IF IsSpace(s[Len(s)]) THEN Strip(SubSeq(s, 1, Len(s) - 1))
    ELSE s

\* str.title(): a cased character is upper case after an uncased one (or at
\* the start) and lower case after a cased one.
Title(s) ==
    [i \in 1 .. Len(s) |->
        IF i = 1 \/ ~IsCased(s[i - 1]) THEN ToUpper(s[i]) ELSE ToLower(s[i])]

\* exercise['name'].strip().title()
NormalizeName(n) == Title(Strip(n))

(***************************************************************************)
(* Configuration and requests.                                             *)
(***************************************************************************)
\* Config.VITE_API_KEY (validated to be non-empty at start-up).
VITE_API_KEY == "secret"

\* The api_key a request carries: the configured one, another one, or none
\* (data.get('api_key') / request.args.get('api_key') is then None).
NoKey == "None"

ApiKeys == {VITE_API_KEY, "wrong", NoKey}

\* Bodies of POST /webhook/log_workout: the JSON object sent.  The empty
\* object carries neither key nor text.
TextInputs == {<<"b", "p">>, <<" ">>, << >>}

LogBodies ==
    {EmptyDict}
        \cup {[api_key |-> k] : k \in ApiKeys \ {NoKey}}
        \cup {[text |-> t] : t \in TextInputs}
        \cup {[api_key |-> k, text |-> t] : k \in ApiKeys \ {NoKey}, t \in TextInputs}

\* A POST that carries no JSON body (no body, or a body that is not announced
\* as JSON).
NoJsonBody == [no_json |-> TRUE]

\* request.get_json() of such a request returns None (the handler then answers
\* 400) or raises (the handler's except clause then answers 500), depending on
\* the version of the web framework the server runs on.
NoJsonStatuses == {400, 500}

\* Everything a client may post.
LogRequests == LogBodies \cup {NoJsonBody}

\* data.get('api_key')
BodyKey(body) == Get(body, "api_key", NoKey)

(***************************************************************************)
(* What the parsing step may return (parse_workout_with_gemini): a dict    *)
(* with a date, optional duration_minutes / workout_type / notes, and a    *)
(* list of exercises, each a name and a list of sets.  A set carries the   *)
(* set_number the model chose, reps, and weight_lbs unless it was omitted. *)
(***************************************************************************)
SetA == [set_number |-> 1, reps |-> 5, weight_lbs |-> 2]

SetB == [set_number |-> 1, reps |-> 3]

SetC == [set_number |-> 4, reps |-> 2, weight_lbs |-> 3]

NoMeta == EmptyDict

FullMeta == [duration_minutes |-> 45, workout_type |-> "push", notes |-> "felt strong"]

\* (optional fields, exercises) of the parsed workouts the model draws from
WorkoutInputs ==
    { <<NoMeta, << [name |-> <<"b", "p">>, sets |-> <<SetA, SetB>>] >> >>,
      <<FullMeta, << [name |-> <<" ", "B", "P">>, sets |-> <<SetC>>],
                     [name |-> <<"p", " ", "b">>, sets |-> << >>] >> >> }

ParsedWorkouts ==
    { [date |-> d, exercises |-> w[2]] @@ w[1] : d \in Dates, w \in WorkoutInputs }

\* Variant of parse_workout_with_gemini: a failed call of the model is tried
\* once more before the error is raised.
parse_workout_with_gemini_retry ==
    { [raised |-> FALSE, calls |-> 1, workout_data |-> wd] : wd \in ParsedWorkouts }
        \cup { [raised |-> TRUE, calls |-> 2] }

\* parse_workout_with_gemini(text): one call of the model, whose answer is
\* read as JSON and returned, or whose failure (the call raises, or the text is
\* not valid JSON) is raised again as an Exception.
parse_workout_with_gemini ==
    { [raised |-> FALSE, calls |-> 1, workout_data |-> wd] : wd \in ParsedWorkouts }
        \cup { [raised |-> TRUE, calls |-> 1] }

(***************************************************************************)
(* State.                                                                  *)
(***************************************************************************)
VARIABLES
    workouts,   \* table workouts: sequence of rows, row i has id i
    exercises,  \* table exercises
    sets,       \* table sets
    proc,       \* per slot: the locals of the log-workout request in it, with
                \* the ids of the exercise rows it inserted (wrote), whether
                \* it inserted its workout row (created) and its HTTP status
    nlogs,      \* log-workout requests that reached the store so far
    reply,      \* the HTTP response sent by the latest step, or NoReply
    gemini_calls \* calls of the model (generate_content) made by the latest step

vars == <<workouts, exercises, sets, proc, nlogs, reply, gemini_calls>>

store == <<workouts, exercises, sets>>

NoReply == [op |-> "none", status |-> 0]

\* The locals of a request that has not started.
IdleProc ==
    [pc |-> "idle", workout_data |-> EmptyDict, workout_id |-> 0,
     exercise_idx |-> 0, exercise_id |-> 0, set_idx |-> 0,
     created |-> FALSE, wrote |-> << >>, status |-> 0]

Init ==
    /\ workouts = << >>
    /\ exercises = << >>
    /\ sets = << >>
    /\ proc = [p \in Procs |-> IdleProc]
    /\ nlogs = 0
    /\ reply = NoReply
    /\ gemini_calls = 0

(***************************************************************************)
(* The store (supabase.table(...)).                                        *)
(***************************************************************************)
\* supabase.table('workouts').select('id').eq('date', d): the ids of the rows
\* of that date.  The store returns them in an order of its choosing.
WorkoutIdsOn(d) == {i \in 1 .. Len(workouts) : workouts[i].date = d}

\* insert(...).execute().data[0]['id'] of a serial key
NextId(table) == Len(table) + 1

\* No log-workout request is in flight.
Quiet == \A q \in Procs : proc[q].pc \in {"idle", "done"}

(***************************************************************************)
(* POST /webhook/log_workout (src/backend/workout_server.py).              *)
(***************************************************************************)
\* Variant of KeyRejected: no key is refused.
KeyRejectedBug(k) == FALSE

\* data.get('api_key') != Config.VITE_API_KEY
KeyRejected(k) == k # VITE_API_KEY

\* one JSON response with its HTTP status
Response(op, status) == [op |-> op, status |-> status]

\* The exercise and the set the two loops of store_workout_in_supabase are at.
CurExercise(l) == l.workout_data.exercises[l.exercise_idx + 1]

CurSet(l) == CurExercise(l).sets[l.set_idx + 1]

\* Loop control between two store calls: after the last set of an exercise
\* the outer loop goes on, after the last exercise the function returns.
RECURSIVE Advance(_)
Advance(l) ==
    IF l.pc = "sets"
    THEN IF l.set_idx < Len(CurExercise(l).sets) THEN l
         ELSE Advance([l EXCEPT !.pc = "exercises",
                                !.exercise_idx = l.exercise_idx + 1])
    ELSE IF l.pc = "exercises"
    THEN IF l.exercise_idx < Len(l.workout_data.exercises) THEN l
         ELSE [l EXCEPT !.pc = "return"]
    ELSE l

\* log_workout up to and including the parsing step: the request is
\* refused, or parsed into workout_data.
log_workout(p, body) ==
    /\ proc[p].pc \in {"idle", "done"}
    /\ IF body = NoJsonBody
       THEN /\ \E status \in NoJsonStatuses : reply' = Response("log_workout", status)
            /\ gemini_calls' = 0
            /\ UNCHANGED <<store, proc, nlogs>>
       ELSE IF body = EmptyDict
       THEN /\ reply' = Response("log_workout", 400)
            /\ gemini_calls' = 0
            /\ UNCHANGED <<store, proc, nlogs>>
       ELSE IF KeyRejected(BodyKey(body))
       THEN /\ reply' = Response("log_workout", 401)
            /\ gemini_calls' = 0
            /\ UNCHANGED <<store, proc, nlogs>>
       ELSE IF Strip(Get(body, "text", << >>)) = << >>
       THEN /\ reply' = Response("log_workout", 400)
            /\ gemini_calls' = 0
            /\ UNCHANGED <<store, proc, nlogs>>
       ELSE \E parsed \in parse_workout_with_gemini :
              /\ gemini_calls' = parsed.calls
              /\ IF parsed.raised
                 THEN /\ reply' = Response("log_workout", 500)
                      /\ UNCHANGED <<store, proc, nlogs>>
                 ELSE /\ nlogs < MaxLogs
                      /\ nlogs' = nlogs + 1
                      /\ proc' = [proc EXCEPT ![p] =
                                    [IdleProc EXCEPT !.pc = "select",
                                                     !.workout_data = parsed.workout_data]]
                      /\ reply' = NoReply
                      /\ UNCHANGED store

\* Variant of FoundIds: the lookup never finds a row.
FoundIdsBug(d) == {}

\* existing_workout.data
FoundIds(d) == WorkoutIdsOn(d)

\* Variant of SelectWorkout: the lookup waits while another request is between
\* its lookup and its insert.
SelectWorkoutLocked(p) ==
    /\ proc[p].pc = "select"
    /\ \A q \in Procs \ {p} : proc[q].pc # "insert_workout"
    /\ LET l == proc[p]
           found == FoundIds(l.workout_data.date)
       IN IF found # {}
          THEN \E i \in found :
                 proc' = [proc EXCEPT ![p] =
                            Advance([l EXCEPT !.pc = "exercises", !.workout_id = i])]
          ELSE proc' = [proc EXCEPT ![p].pc = "insert_workout"]
    /\ reply' = NoReply
    /\ gemini_calls' = 0
    /\ UNCHANGED <<store, nlogs>>

\* Variant of SelectWorkout: a workout found for the date takes the duration,
\* type and notes of the new request.
SelectWorkoutUpsert(p) ==
    /\ proc[p].pc = "select"
    /\ LET l == proc[p]
           found == FoundIds(l.workout_data.date)
       IN IF found # {}
          THEN \E i \in found :
                 /\ proc' = [proc EXCEPT ![p] =
                               Advance([l EXCEPT !.pc = "exercises", !.workout_id = i])]
                 /\ workouts' = [workouts EXCEPT
                        ![i].workout_type = Get(l.workout_data, "workout_type", "strength"),
                        ![i].notes = Get(l.workout_data, "notes", "")]
          ELSE /\ proc' = [proc EXCEPT ![p].pc = "insert_workout"]
               /\ workouts' = workouts
    /\ reply' = NoReply
    /\ gemini_calls' = 0
    /\ UNCHANGED <<exercises, sets, nlogs>>

\* Step 1: look for a workout of the date.  data[0] is the first row the
\* store returns; the query states no order.
SelectWorkout(p) ==
    /\ proc[p].pc = "select"
    /\ LET l == proc[p]
           found == FoundIds(l.workout_data.date)
       IN IF found # {}
          THEN \E i \in found :
                 proc' = [proc EXCEPT ![p] =
                            Advance([l EXCEPT !.pc = "exercises", !.workout_id = i])]
          ELSE proc' = [proc EXCEPT ![p].pc = "insert_workout"]
    /\ reply' = NoReply
    /\ gemini_calls' = 0
    /\ UNCHANGED <<store, nlogs>>

\* Variant of WorkoutRow: a missing duration is stored as 0.
WorkoutRowBug(id, wd) ==
    [id |-> id,
     date |-> wd.date,
     duration_minutes |-> Some(Get(wd, "duration_minutes", 0)),
     workout_type |-> Get(wd, "workout_type", "strength"),
     notes |-> Get(wd, "notes", "")]

\* The row of a new workout.
WorkoutRow(id, wd) ==
    [id |-> id,
     date |-> wd.date,
     duration_minutes |->
        IF "duration_minutes" \in DOMAIN wd THEN Some(wd.duration_minutes) ELSE Null,
     workout_type |-> Get(wd, "workout_type", "strength"),
     notes |-> Get(wd, "notes", "")]

InsertWorkout(p) ==
    /\ proc[p].pc = "insert_workout"
    /\ LET l == proc[p]
           id == NextId(workouts)
       IN /\ workouts' = Append(workouts, WorkoutRow(id, l.workout_data))
          /\ proc' = [proc EXCEPT ![p] =
                        Advance([l EXCEPT !.pc = "exercises", !.workout_id = id,
                                          !.created = TRUE])]
    /\ reply' = NoReply
    /\ gemini_calls' = 0
    /\ UNCHANGED <<exercises, sets, nlogs>>

\* Variant of ExerciseRow: the row names another workout.
ExerciseRowBug(id, workout_id, name, idx) ==
    [id |-> id, workout_id |-> workout_id + 1,
     exercise_name |-> name, order_index |-> idx]

\* Step 2: one exercise row per parsed exercise, in list order.
ExerciseRow(id, workout_id, name, idx) ==
    [id |-> id, workout_id |-> workout_id,
     exercise_name |-> name, order_index |-> idx]

InsertExercise(p) ==
    /\ proc[p].pc = "exercises"
    /\ LET l == proc[p]
           id == NextId(exercises)
       IN /\ exercises' = Append(exercises,
                ExerciseRow(id, l.workout_id,
                            NormalizeName(CurExercise(l).name), l.exercise_idx))
          /\ proc' = [proc EXCEPT ![p] =
                        Advance([l EXCEPT !.pc = "sets", !.exercise_id = id,
                                          !.set_idx = 0,
                                          !.wrote = Append(l.wrote, id)])]
    /\ reply' = NoReply
    /\ gemini_calls' = 0
    /\ UNCHANGED <<workouts, sets, nlogs>>

\* Variant of SetRow: set_number is the parsed one.
SetRowBug(id, exercise_id, idx, s) ==
    [id |-> id, exercise_id |-> exercise_id, set_number |-> s.set_number,
     reps |-> s.reps, weight_lbs |-> Get(s, "weight_lbs", 0)]

\* One set row per parsed set; set_number counts the position in the list.
SetRow(id, exercise_id, idx, s) ==
    [id |-> id, exercise_id |-> exercise_id, set_number |-> idx + 1,
     reps |-> s.reps, weight_lbs |-> Get(s, "weight_lbs", 0)]

InsertSet(p) ==
    /\ proc[p].pc = "sets"
    /\ LET l == proc[p]
           id == NextId(sets)
       IN /\ sets' = Append(sets, SetRow(id, l.exercise_id, l.set_idx, CurSet(l)))
          /\ proc' = [proc EXCEPT ![p] =
                        Advance([l EXCEPT !.set_idx = l.set_idx + 1])]
    /\ reply' = NoReply
    /\ gemini_calls' = 0
    /\ UNCHANGED <<workouts, exercises, nlogs>>

\* return workout_id, and the 200 response of log_workout
ReturnOk(p) ==
    /\ proc[p].pc = "return"
    /\ proc' = [proc EXCEPT ![p].pc = "done", ![p].status = 200]
    /\ reply' = [op |-> "log_workout", status |-> 200,
                 workout_id |-> proc[p].workout_id]
    /\ gemini_calls' = 0
    /\ UNCHANGED <<store, nlogs>>

\* Variant of StoreFails: the failure takes back the set rows of the exercise
\* being written.
StoreFailsRollback(p) ==
    /\ proc[p].pc \in {"select", "insert_workout", "exercises", "sets"}
    /\ proc' = [proc EXCEPT ![p].pc = "done", ![p].status = 500]
    /\ reply' = Response("log_workout", 500)
    /\ sets' = SelectSeq(sets, LAMBDA r : r.exercise_id # proc[p].exercise_id)
    /\ gemini_calls' = 0
    /\ UNCHANGED <<workouts, exercises, nlogs>>

\* A store call (or the reading of the parsed data around it) raises:
\* store_workout_in_supabase re-raises, and log_workout answers 500.
StoreFails(p) ==
    /\ proc[p].pc \in {"select", "insert_workout", "exercises", "sets"}
    /\ proc' = [proc EXCEPT ![p].pc = "done", ![p].status = 500]
    /\ reply' = Response("log_workout", 500)
    /\ gemini_calls' = 0
    /\ UNCHANGED <<store, nlogs>>

StoreStep(p) ==
    \/ SelectWorkout(p)
    \/ InsertWorkout(p)
    \/ InsertExercise(p)
    \/ InsertSet(p)
    \/ ReturnOk(p)
    \/ StoreFails(p)

(***************************************************************************)
(* Queries of the read endpoints.                                          *)
(***************************************************************************)
\* The sequences that list the elements of S once each, by ascending key
\* (key is a function on S).  Rows with equal keys come in any order: the
\* store promises none.
RECURSIVE SortedSeqs(_, _)
SortedSeqs(S, key) ==
    IF S = {} THEN { << >> }
    ELSE LET least == {x \in S : \A y \in S : key[x] <= key[y]}
         IN UNION { { <<x>> \o t : t \in SortedSeqs(S \ {x}, key) } : x \in least }

RECURSIVE SumOf(_)
SumOf(q) == IF q = << >> THEN 0 ELSE Head(q) + SumOf(Tail(q))

\* max(..., default=0)
RECURSIVE MaxOf(_)
MaxOf(q) ==
    IF q = << >> THEN 0
    ELSE IF Len(q) = 1 THEN q[1]
    ELSE LET m == MaxOf(Tail(q)) IN IF Head(q) >= m THEN Head(q) ELSE m

Ids(table) == 1 .. Len(table)

\* ...select('*').eq('exercise_id', e).order('set_number')
SetsOrdered(e) ==
    SortedSeqs({sets[i] : i \in {j \in Ids(sets) : sets[j].exercise_id = e}},
               [r \in {sets[i] : i \in Ids(sets)} |-> r.set_number])

\* the embedded sets(*) of an exercise row, as the store lists them
SetsOf(e) == SelectSeq(sets, LAMBDA r : r.exercise_id = e)

\* float(w) if w else 0
Weight(r) == IF r.weight_lbs # 0 THEN r.weight_lbs ELSE 0

(***************************************************************************)
(* GET /api/get_all_workouts                                               *)
(***************************************************************************)
SetView(r) == [set_number |-> r.set_number, reps |-> r.reps, weight |-> Weight(r)]

\* one exercise of the response, for one order of its sets
ExerciseView(x, ss) ==
    [name |-> x.exercise_name, sets |-> [i \in 1 .. Len(ss) |-> SetView(ss[i])]]

\* the volume the sets of the listed exercises add up to
RowVolume(r) == IF r.weight_lbs # 0 /\ r.reps # 0 THEN r.weight_lbs * r.reps ELSE 0

RECURSIVE ExerciseViews(_)
ExerciseViews(xs) ==
    IF xs = << >> THEN { << >> }
    ELSE { <<ExerciseView(Head(xs), ss)>> \o rest :
             ss \in SetsOrdered(Head(xs).id), rest \in ExerciseViews(Tail(xs)) }

\* ...select('*').eq('workout_id', w).order('order_index')
ExercisesOrdered(w) ==
    SortedSeqs({exercises[i] : i \in {j \in Ids(exercises) : exercises[j].workout_id = w}},
               [r \in {exercises[i] : i \in Ids(exercises)} |-> r.order_index])

WorkoutVolume(xs) ==
    SumOf([i \in 1 .. Len(xs) |->
             LET ss == SetsOf(xs[i].id)
             IN SumOf([k \in 1 .. Len(ss) |-> RowVolume(ss[k])])])

WorkoutViews(w) ==
    UNION { { [id |-> w.id, date |-> w.date,
               duration_minutes |-> w.duration_minutes,
               workout_type |-> w.workout_type, notes |-> w.notes,
               exercises |-> ev, total_volume |-> WorkoutVolume(xs)] :
               ev \in ExerciseViews(xs) } :
            xs \in ExercisesOrdered(w.id) }

RECURSIVE AllWorkoutViews(_)
AllWorkoutViews(ws) ==
    IF ws = << >> THEN { << >> }
    ELSE { <<v>> \o rest : v \in WorkoutViews(Head(ws)), rest \in AllWorkoutViews(Tail(ws)) }

\* ...select('*').order('date', desc=True)
WorkoutsNewestFirst ==
    SortedSeqs({workouts[i] : i \in Ids(workouts)},
               [r \in {workouts[i] : i \in Ids(workouts)} |-> 0 - r.date])

get_all_workouts(key) ==
    /\ IF KeyRejected(key)
       THEN reply' = Response("get_all_workouts", 401)
       ELSE \E ws \in WorkoutsNewestFirst : \E body \in AllWorkoutViews(ws) :
              reply' = [op |-> "get_all_workouts", status |-> 200, body |-> body]
    /\ gemini_calls' = 0
    /\ UNCHANGED <<store, proc, nlogs>>

(***************************************************************************)
(* GET /api/get_exercise_history/<exercise_id>                             *)
(***************************************************************************)
\* sorted(sets, key=set_number): stable, from the order the store lists them
RECURSIVE InsertByNumber(_, _)
InsertByNumber(q, r) ==
    IF q = << >> THEN <<r>>
    ELSE IF r.set_number < Head(q).set_number THEN <<r>> \o q
    ELSE <<Head(q)>> \o InsertByNumber(Tail(q), r)

RECURSIVE SortByNumber(_)
SortByNumber(q) ==
    IF q = << >> THEN << >>
    ELSE InsertByNumber(SortByNumber(SubSeq(q, 1, Len(q) - 1)), q[Len(q)])

RepsOf(ss) == [i \in 1 .. Len(ss) |-> ss[i].reps]

WeightsOf(ss) == [i \in 1 .. Len(ss) |-> ss[i].weight_lbs]

VolumesOf(ss) == [i \in 1 .. Len(ss) |-> ss[i].reps * ss[i].weight_lbs]

\* the history entry of one exercise row
HistoryEntry(x) ==
    LET w == workouts[x.workout_id]
        ss == SortByNumber(SetsOf(x.id))
    IN [exercise_id |-> x.id,
        workout_id |-> x.workout_id,
        date |-> w.date,
        workout_type |-> w.workout_type,
        duration_minutes |-> w.duration_minutes,
        notes |-> w.notes,
        sets |-> ss,
        total_sets |-> Len(ss),
        total_reps |-> SumOf(RepsOf(ss)),
        total_volume |-> SumOf(VolumesOf(ss)),
        max_weight |-> MaxOf(WeightsOf(ss)),
        max_reps |-> MaxOf(RepsOf(ss))]

\* Variant of SameNameRows: the query returns the rows of every name.
SameNameRowsBug(name) == {exercises[i] : i \in Ids(exercises)}

\* the rows the name query returns
SameNameRows(name) ==
    {exercises[i] : i \in {j \in Ids(exercises) : exercises[j].exercise_name = name}}

\* all sets of all entries
RECURSIVE AllSets(_)
AllSets(h) == IF h = << >> THEN << >> ELSE Head(h).sets \o AllSets(Tail(h))

Statistics(h) ==
    LET all == AllSets(h)
    IN [total_workouts |-> Len(h),
        total_sets |-> Len(all),
        total_reps |-> SumOf(RepsOf(all)),
        total_volume |-> SumOf(VolumesOf(all)),
        max_weight_ever |-> MaxOf(WeightsOf(all)),
        max_reps_ever |-> MaxOf(RepsOf(all))]

\* Variant of SortNewestFirst: the list is left as it is.
Unsorted(q) == q

\* history.sort(key=date, reverse=True): stable
RECURSIVE InsertNewestFirst(_, _)
InsertNewestFirst(q, r) ==
    IF q = << >> THEN <<r>>
    ELSE IF r.date > Head(q).date THEN <<r>> \o q
    ELSE <<Head(q)>> \o InsertNewestFirst(Tail(q), r)

RECURSIVE SortNewestFirst(_)
SortNewestFirst(q) ==
    IF q = << >> THEN << >>
    ELSE InsertNewestFirst(SortNewestFirst(SubSeq(q, 1, Len(q) - 1)), q[Len(q)])

\* The history entries of the rows in the order the store returned them (any
\* order), after history.sort(key=date, reverse=True).
Histories(name) ==
    LET rows == SameNameRows(name)
        listed == SortedSeqs(rows, [x \in rows |-> 0])
    IN { SortNewestFirst([i \in 1 .. Len(xs) |-> HistoryEntry(xs[i])]) : xs \in listed }

\* Variant of get_exercise_history: an id that names no row is answered 200
\* with an empty history.
get_exercise_history_empty(key, exercise_id) ==
    /\ IF KeyRejected(key)
       THEN reply' = Response("get_exercise_history", 401)
       ELSE IF exercise_id \notin Ids(exercises)
       THEN reply' = [op |-> "get_exercise_history", status |-> 200,
                      exercise_id |-> exercise_id, history |-> << >>]
       ELSE LET name == exercises[exercise_id].exercise_name
            IN \E h \in Histories(name) :
                 reply' = [op |-> "get_exercise_history", status |-> 200,
                           exercise_id |-> exercise_id,
                           exercise_name |-> name,
                           history |-> h,
                           statistics |-> Statistics(h)]
    /\ gemini_calls' = 0
    /\ UNCHANGED <<store, proc, nlogs>>

get_exercise_history(key, exercise_id) ==
    /\ IF KeyRejected(key)
       THEN reply' = Response("get_exercise_history", 401)
       ELSE IF exercise_id \notin Ids(exercises)
       THEN reply' = [op |-> "get_exercise_history", status |-> 404,
                      exercise_id |-> exercise_id]
       ELSE LET name == exercises[exercise_id].exercise_name
            IN \E h \in Histories(name) :
                 reply' = [op |-> "get_exercise_history", status |-> 200,
                           exercise_id |-> exercise_id,
                           exercise_name |-> name,
                           history |-> h,
                           statistics |-> Statistics(h)]
    /\ gemini_calls' = 0
    /\ UNCHANGED <<store, proc, nlogs>>

(***************************************************************************)
(* GET /api/get_all_exercises                                              *)
(***************************************************************************)
\* exercises_dict[name] of a name seen for the first time
NewExercise(name) ==
    [name |-> name, pr_weight |-> 0, pr_date |-> Null,
     history |-> << >>, session_dates |-> {}]

\* Variant of UpdatePr: only the last set of a row is compared with the record.
UpdatePrLastSet(e, ss, date) ==
    IF ss = << >> THEN e
    ELSE IF Weight(ss[Len(ss)]) > e.pr_weight
    THEN [e EXCEPT !.pr_weight = Weight(ss[Len(ss)]), !.pr_date = Some(date)]
    ELSE e

\* "Update PR if this is a heavier working set", over the sets of one row
RECURSIVE UpdatePr(_, _, _)
UpdatePr(e, ss, date) ==
    IF ss = << >> THEN e
    ELSE UpdatePr(IF Weight(Head(ss)) > e.pr_weight
                  THEN [e EXCEPT !.pr_weight = Weight(Head(ss)), !.pr_date = Some(date)]
                  ELSE e,
                  Tail(ss), date)

\* max(sets, key=weight, default=None): the first set of the top weight
TopSetIndex(ss) ==
    CHOOSE i \in 1 .. Len(ss) :
        /\ \A k \in 1 .. Len(ss) : Weight(ss[k]) <= Weight(ss[i])
        /\ \A k \in 1 .. (i - 1) : Weight(ss[k]) < Weight(ss[i])

SetDetails(ss) == [i \in 1 .. Len(ss) |-> SetView(ss[i])]

\* a session created for a date not seen under this name
NewSession(date, ss) ==
    [date |-> date,
     total_sets |-> Len(ss),
     weight |-> IF ss = << >> THEN 0 ELSE Weight(ss[TopSetIndex(ss)]),
     reps |-> IF ss = << >> THEN 0 ELSE ss[TopSetIndex(ss)].reps,
     volume |-> SumOf([i \in 1 .. Len(ss) |-> Weight(ss[i]) * ss[i].reps]),
     set_details |-> SetDetails(ss)]

\* an existing session taking the sets of one more row of its date
ExtendSession(session, ss) ==
    [session EXCEPT
        !.total_sets = @ + Len(ss),
        !.volume = @ + SumOf([i \in 1 .. Len(ss) |-> Weight(ss[i]) * ss[i].reps]),
        !.set_details = @ \o SetDetails(ss)]

\* the loop body for one exercise row
AddSession(e, date, ss) ==
    LET at == {i \in 1 .. Len(e.history) : e.history[i].date = date}
    IN IF at # {}
       THEN LET i == CHOOSE k \in at : \A m \in at : k <= m
            IN [e EXCEPT !.history[i] = ExtendSession(@, ss)]
       ELSE [e EXCEPT !.history = Append(@, NewSession(date, ss)),
                      !.session_dates = @ \cup {date}]

\* exercises_dict is the set of its values, each found by its name
ProcessRow(d, x) ==
    LET name == x.exercise_name
        date == workouts[x.workout_id].date
        ss == SetsOf(x.id)
        old == {e \in d : e.name = name}
        e == IF old # {} THEN CHOOSE y \in old : TRUE ELSE NewExercise(name)
    IN (d \ old) \cup {AddSession(UpdatePr(e, ss, date), date, ss)}

RECURSIVE GroupByName(_, _)
GroupByName(d, xs) ==
    IF xs = << >> THEN d ELSE GroupByName(ProcessRow(d, Head(xs)), Tail(xs))

Finalize(e) ==
    [name |-> e.name, pr_weight |-> e.pr_weight, pr_date |-> e.pr_date,
     history |-> SortNewestFirst(e.history),
     total_sessions |-> Cardinality(e.session_dates)]

\* The response lists the exercises by name; names are unique in it, so it is
\* given as the set of its entries.
AllExercisesBody(xs) == {Finalize(e) : e \in GroupByName({}, xs)}

\* the joined exercise rows, in an order of the store's choosing
ExerciseRowOrders ==
    SortedSeqs({exercises[i] : i \in Ids(exercises)},
               [r \in {exercises[i] : i \in Ids(exercises)} |-> 0])

get_all_exercises(key) ==
    /\ IF KeyRejected(key)
       THEN reply' = Response("get_all_exercises", 401)
       ELSE \E xs \in ExerciseRowOrders :
              reply' = [op |-> "get_all_exercises", status |-> 200,
                        body |-> AllExercisesBody(xs)]
    /\ gemini_calls' = 0
    /\ UNCHANGED <<store, proc, nlogs>>

(***************************************************************************)
(* POST /webhook/log-workout of src/workout_server.py: every request       *)
(* inserts a workout row, and names are stored as parsed.                  *)
(***************************************************************************)
\* Config.API_KEY of that server
API_KEY == "secret"

root_log_workout(p, body) ==
    /\ proc[p].pc \in {"idle", "done"}
    /\ IF body = NoJsonBody
       THEN /\ \E status \in NoJsonStatuses : reply' = Response("log_workout", status)
            /\ gemini_calls' = 0
            /\ UNCHANGED <<store, proc, nlogs>>
       ELSE IF body = EmptyDict
       THEN /\ reply' = Response("log_workout", 400)
            /\ gemini_calls' = 0
            /\ UNCHANGED <<store, proc, nlogs>>
       ELSE IF BodyKey(body) # API_KEY
       THEN /\ reply' = Response("log_workout", 401)
            /\ gemini_calls' = 0
            /\ UNCHANGED <<store, proc, nlogs>>
       ELSE IF Strip(Get(body, "text", << >>)) = << >>
       THEN /\ reply' = Response("log_workout", 400)
            /\ gemini_calls' = 0
            /\ UNCHANGED <<store, proc, nlogs>>
       ELSE \E parsed \in parse_workout_with_gemini :
              /\ gemini_calls' = parsed.calls
              /\ IF parsed.raised
                 THEN /\ reply' = Response("log_workout", 500)
                      /\ UNCHANGED <<store, proc, nlogs>>
                 ELSE /\ nlogs < MaxLogs
                      /\ nlogs' = nlogs + 1
                      /\ proc' = [proc EXCEPT ![p] =
                                    [IdleProc EXCEPT !.pc = "insert_workout",
                                                     !.workout_data = parsed.workout_data]]
                      /\ reply' = NoReply
                      /\ UNCHANGED store

RootInsertWorkout(p) == InsertWorkout(p)

RootInsertExercise(p) ==
    /\ proc[p].pc = "exercises"
    /\ LET l == proc[p]
           id == NextId(exercises)
       IN /\ exercises' = Append(exercises,
                ExerciseRow(id, l.workout_id, CurExercise(l).name, l.exercise_idx))
          /\ proc' = [proc EXCEPT ![p] =
                        Advance([l EXCEPT !.pc = "sets", !.exercise_id = id,
                                          !.set_idx = 0,
                                          !.wrote = Append(l.wrote, id)])]
    /\ reply' = NoReply
    /\ gemini_calls' = 0
    /\ UNCHANGED <<workouts, sets, nlogs>>

RootInsertSet(p) == InsertSet(p)

RootReturnOk(p) == ReturnOk(p)

\* the store call raises; the error is wrapped and log_workout answers 500
RootStoreFails(p) ==
    /\ proc[p].pc \in {"insert_workout", "exercises", "sets"}
    /\ proc' = [proc EXCEPT ![p].pc = "done", ![p].status = 500]
    /\ reply' = Response("log_workout", 500)
    /\ gemini_calls' = 0
    /\ UNCHANGED <<store, nlogs>>

(***************************************************************************)
(* Specifications.                                                         *)
(***************************************************************************)
\* Requests of the backend server that overlap.
\* Two clients send one log-workout request each.
FirstRequest(p) == proc[p].pc = "idle"

Next ==
    \/ \E p \in Procs, body \in LogRequests : FirstRequest(p) /\ log_workout(p, body)
    \/ \E p \in Procs : StoreStep(p)

Spec == Init /\ [][Next]_vars

\* The server has sent its response and the client has it.
Deliver ==
    /\ Quiet
    /\ reply # NoReply
    /\ reply' = NoReply
    /\ gemini_calls' = 0
    /\ UNCHANGED <<store, proc, nlogs>>

\* No request is being served.
Idle == Quiet /\ reply = NoReply

\* The slot of the next log-workout request of a sequence: the two slots take
\* turns, so that the previous request's locals stay on record.
SeqSlot == IF nlogs % 2 = 0 THEN "r1" ELSE "r2"

\* Requests of the backend server one after the other: a request starts only
\* when no request is being served.
NextSeq ==
    \/ \E body \in LogRequests : Idle /\ log_workout(SeqSlot, body)
    \/ \E p \in Procs : StoreStep(p)
    \/ \E key \in ApiKeys : Idle /\ get_all_workouts(key)
    \/ \E key \in ApiKeys, id \in 1 .. (Len(exercises) + 1) :
            Idle /\ get_exercise_history(key, id)
    \/ \E key \in ApiKeys : Idle /\ get_all_exercises(key)
    \/ Deliver

SpecSeq == Init /\ [][NextSeq]_vars

\* Requests of the server of src/workout_server.py, one after the other.
NextRoot ==
    \/ \E body \in LogRequests : Idle /\ root_log_workout(SeqSlot, body)
    \/ \E p \in Procs :
            \/ RootInsertWorkout(p)
            \/ RootInsertExercise(p)
            \/ RootInsertSet(p)
            \/ RootReturnOk(p)
            \/ RootStoreFails(p)
    \/ Deliver

SpecRoot == Init /\ [][NextRoot]_vars

(***************************************************************************)
(* Properties.                                                             *)
(***************************************************************************)
Done(p, status) == proc[p].pc = "done" /\ proc[p].status = status

\* the parsed exercises of the request in slot p
Parsed(p) == proc[p].workout_data.exercises

\* the exercise rows attached to workout w
AttachedTo(w) == {i \in Ids(exercises) : exercises[i].workout_id = w}

\* the ids of the set rows of exercise e
SetIdsOf(e) == {i \in Ids(sets) : sets[i].exercise_id = e}

Range(q) == {q[i] : i \in 1 .. Len(q)}

\* Request p wrote all of its parsed exercises, with all their sets, onto
\* workout w.
WroteAllOnto(p, w) ==
    /\ Len(proc[p].wrote) = Len(Parsed(p))
    /\ \A k \in 1 .. Len(proc[p].wrote) :
         LET e == proc[p].wrote[k]
         IN /\ e \in AttachedTo(w)
            /\ exercises[e].exercise_name = Title(Strip(Parsed(p)[k].name))
            /\ Len(SetsOf(e)) = Len(Parsed(p)[k].sets)
            /\ \A j \in 1 .. Len(SetsOf(e)) : SetsOf(e)[j].reps = Parsed(p)[k].sets[j].reps

\* C1: two log-workout requests of the backend server that ran one after the
\* other, both answered 200, with the same parsed date, leave exactly one
\* workout row of that date; both return the id of that row, and the exercises
\* of both, with their sets, are attached to it.
C1_SameDateMerged ==
    \A p, q \in Procs :
        (p # q /\ Done(p, 200) /\ Done(q, 200)
            /\ proc[p].workout_data.date = proc[q].workout_data.date)
        => LET d == proc[p].workout_data.date
           IN /\ Cardinality(WorkoutIdsOn(d)) = 1
              /\ proc[p].workout_id \in WorkoutIdsOn(d)
              /\ proc[q].workout_id = proc[p].workout_id
              /\ WroteAllOnto(p, proc[p].workout_id)
              /\ WroteAllOnto(q, proc[p].workout_id)
              /\ Range(proc[p].wrote) \cap Range(proc[q].wrote) = {}

C1_Witness ==
    \E p, q \in Procs :
        /\ p # q /\ Done(p, 200) /\ Done(q, 200)
        /\ proc[p].workout_data.date = proc[q].workout_data.date
        /\ proc[p].created /\ ~proc[q].created
        /\ Len(proc[p].wrote) > 0 /\ Len(proc[q].wrote) > 1
        /\ Len(sets) > 2

\* the api_key is missing or is not the configured one
BadKey(k) == k # VITE_API_KEY

\* a step of a read endpoint with a missing or wrong key answers 401 and
\* leaves the store as it is
ReadsRefuseBadKey ==
    \A key \in {k \in ApiKeys : BadKey(k)} :
        /\ (reply'.op = "get_all_workouts" /\ get_all_workouts(key))
           => (reply'.status = 401 /\ store' = store)
        /\ (reply'.op = "get_all_exercises" /\ get_all_exercises(key))
           => (reply'.status = 401 /\ store' = store)
        /\ \A id \in 1 .. (Len(exercises) + 1) :
             (reply'.op = "get_exercise_history" /\ get_exercise_history(key, id))
             => (reply'.status = 401 /\ store' = store)

\* C2 as stated: on every protected endpoint a request whose api_key is
\* missing or wrong is answered 401, whatever else it contains, and leaves the
\* store unchanged.
C2_Original ==
    [][ /\ \A p \in Procs, body \in LogBodies :
             (reply'.op \in {"log_workout", "none"}
                /\ BadKey(BodyKey(body)) /\ log_workout(p, body))
             => (reply'.status = 401 /\ store' = store)
        /\ ReadsRefuseBadKey ]_vars

\* C2, amended: on get_all_workouts, get_exercise_history and
\* get_all_exercises, and on log-workout when the JSON body is a non-empty
\* object, a missing or wrong api_key is answered 401; a log-workout request
\* whose JSON body is empty is answered 400 before the key is looked at; in
\* all these cases the store is unchanged and no request is started.
C2_BadKeyRefused ==
    [][ /\ \A p \in Procs, body \in LogBodies :
             (reply'.op \in {"log_workout", "none"}
                /\ BadKey(BodyKey(body)) /\ log_workout(p, body))
             => /\ reply'.status = IF body = EmptyDict THEN 400 ELSE 401
                /\ store' = store
                /\ proc' = proc
        /\ ReadsRefuseBadKey ]_vars

C2_Witness ==
    /\ reply.op = "log_workout"
    /\ reply.status = 401
    /\ Len(sets) > 0
    /\ Quiet

\* C3: after any sequence of log-workout requests that do not overlap, no two
\* workout rows have the same date (stated of both server files).
C3_OneWorkoutPerDate ==
    \A i, j \in Ids(workouts) : workouts[i].date = workouts[j].date => i = j

\* C4: nothing keeps two concurrent requests of one date apart between the
\* lookup and the insert: while one request has read "no workout of this date"
\* and has not inserted yet, the other's lookup can run and reads the same;
\* two requests that both created a row of the same date leave two rows of that
\* date, each carrying the exercises of its own request only.
C4_NoLockAroundFindOrCreate ==
    \A p, q \in Procs :
        /\ (p # q /\ proc[p].pc = "insert_workout" /\ proc[q].pc = "select"
              /\ proc[p].workout_data.date = proc[q].workout_data.date)
           => /\ WorkoutIdsOn(proc[q].workout_data.date) = {}
              /\ ENABLED (SelectWorkout(q) /\ proc'[q].pc = "insert_workout")
        /\ (p # q /\ Done(p, 200) /\ Done(q, 200) /\ proc[p].created /\ proc[q].created
              /\ proc[p].workout_data.date = proc[q].workout_data.date)
           => /\ proc[p].workout_id # proc[q].workout_id
              /\ {proc[p].workout_id, proc[q].workout_id}
                    = WorkoutIdsOn(proc[p].workout_data.date)
              /\ AttachedTo(proc[p].workout_id) = Range(proc[p].wrote)
              /\ AttachedTo(proc[q].workout_id) = Range(proc[q].wrote)

C4_Witness ==
    \E p, q \in Procs :
        /\ p # q /\ Done(p, 200) /\ Done(q, 200)
        /\ proc[p].workout_data.date = proc[q].workout_data.date
        /\ Cardinality(WorkoutIdsOn(proc[p].workout_data.date)) = 2
        /\ AttachedTo(proc[p].workout_id) = Range(proc[p].wrote)
        /\ AttachedTo(proc[q].workout_id) = Range(proc[q].wrote)
        /\ Range(proc[p].wrote) # {} /\ Range(proc[q].wrote) # {}

\* a table only grows at its end
Extends(new, old) == Len(new) >= Len(old) /\ SubSeq(new, 1, Len(old)) = old

InFlight(p) == proc[p].pc \notin {"idle", "done"}

\* C5: when a store call of a request fails, the request is answered 500 in
\* that step, every row written before stays (no table ever loses or changes
\* a row), and the request does nothing afterwards.
C5_FailureKeepsRows ==
    [][ /\ Extends(workouts', workouts)
        /\ Extends(exercises', exercises)
        /\ Extends(sets', sets)
        /\ \A p \in Procs :
             /\ (InFlight(p) /\ proc'[p].status = 500)
                => (store' = store /\ reply' = Response("log_workout", 500)
                      /\ proc'[p].pc = "done")
             /\ Done(p, 500) => proc'[p] = proc[p] ]_vars

C5_Witness ==
    \E p, q \in Procs :
        /\ Done(p, 500) /\ proc[p].created /\ AttachedTo(proc[p].workout_id) = {}
        /\ Done(q, 500) /\ proc[q].wrote # << >>
        /\ LET k == Len(proc[q].wrote)
           IN /\ Len(SetsOf(proc[q].wrote[k])) > 0
              /\ Len(SetsOf(proc[q].wrote[k])) < Len(Parsed(q)[k].sets)

\* C6: every exercise row names an existing workout row and every set row an
\* existing exercise row; the exercise rows a request wrote all carry the
\* workout it found or created, and the sets of each parsed exercise hang on
\* the row inserted for that exercise.
C6_OwnersExist ==
    /\ \A i \in Ids(workouts) : workouts[i].id = i
    /\ \A i \in Ids(exercises) :
         exercises[i].id = i /\ exercises[i].workout_id \in Ids(workouts)
    /\ \A i \in Ids(sets) : sets[i].exercise_id \in Ids(exercises)
    /\ \A p \in Procs :
         /\ \A k \in 1 .. Len(proc[p].wrote) :
              /\ proc[p].wrote[k] \in AttachedTo(proc[p].workout_id)
              /\ \A j \in 1 .. Len(SetsOf(proc[p].wrote[k])) :
                   /\ j <= Len(Parsed(p)[k].sets)
                   /\ SetsOf(proc[p].wrote[k])[j].reps = Parsed(p)[k].sets[j].reps
              /\ k < Len(proc[p].wrote)
                 => Len(SetsOf(proc[p].wrote[k])) = Len(Parsed(p)[k].sets)
         /\ proc[p].pc = "sets"
            => /\ proc[p].wrote # << >>
               /\ proc[p].exercise_id = proc[p].wrote[Len(proc[p].wrote)]
               /\ Len(SetsOf(proc[p].exercise_id)) = proc[p].set_idx

C6_Witness ==
    \E p, q \in Procs :
        /\ p # q
        /\ Done(p, 200) /\ Len(proc[p].wrote) = 2
        /\ proc[q].pc = "sets" /\ proc[q].set_idx = 1
        /\ proc[q].workout_id = proc[p].workout_id
        /\ proc[p].wrote[1] < proc[q].exercise_id
        /\ proc[q].exercise_id < proc[p].wrote[2]

\* C7: the set rows of an exercise row, in the order they were written, are
\* numbered 1, 2, ..., k, whatever set_number the parser gave them and also
\* when the request failed among them.
C7_SetNumbersSequential ==
    \A e \in Ids(exercises) :
        \A j \in 1 .. Len(SetsOf(e)) : SetsOf(e)[j].set_number = j

C7_Witness ==
    \E p \in Procs :
        /\ Done(p, 500) /\ proc[p].wrote # << >>
        /\ LET k == Len(proc[p].wrote)
               e == proc[p].wrote[k]
           IN /\ Len(SetsOf(e)) = 1
              /\ Len(Parsed(p)[k].sets) = 2
        /\ \E q \in Procs \ {p} :
             /\ Done(q, 200) /\ proc[q].wrote # << >>
             /\ Len(SetsOf(proc[q].wrote[1])) = 2
             /\ Parsed(q)[1].sets[2].set_number = 1

\* C8: of two exercise rows of one workout, the one inserted earlier has the
\* smaller order_index.
C8_OrderIndexFollowsInsertion ==
    \A i, j \in Ids(exercises) :
        (i < j /\ exercises[i].workout_id = exercises[j].workout_id)
        => exercises[i].order_index < exercises[j].order_index

\* C9: a set parsed without weight_lbs is stored with weight_lbs 0 (and one
\* parsed with a weight, with that weight); a workout row created from data
\* without duration_minutes has no duration (and one created from data with a
\* duration, that duration).
C9_OmittedFields ==
    \A p \in Procs :
        /\ proc[p].created
           => /\ proc[p].workout_id \in Ids(workouts)
              /\ LET row == workouts[proc[p].workout_id]
                     wd == proc[p].workout_data
                 IN IF "duration_minutes" \in DOMAIN wd
                    THEN row.duration_minutes = <<wd.duration_minutes>>
                    ELSE row.duration_minutes = << >>
        /\ \A k \in 1 .. Len(proc[p].wrote) :
             \A j \in 1 .. Len(SetsOf(proc[p].wrote[k])) :
                LET given == Parsed(p)[k].sets[j]
                    row == SetsOf(proc[p].wrote[k])[j]
                IN IF "weight_lbs" \in DOMAIN given
                   THEN row.weight_lbs = given.weight_lbs
                   ELSE row.weight_lbs = 0

C9_Witness ==
    \E p \in Procs :
        /\ Done(p, 200) /\ proc[p].created
        /\ "duration_minutes" \notin DOMAIN proc[p].workout_data
        /\ workouts[proc[p].workout_id].duration_minutes = << >>
        /\ \E k \in 1 .. Len(proc[p].wrote) : \E j \in 1 .. Len(Parsed(p)[k].sets) :
             /\ "weight_lbs" \notin DOMAIN Parsed(p)[k].sets[j]
             /\ SetsOf(proc[p].wrote[k])[j].weight_lbs = 0

\* sum and maximum of f over the rows of table t with ids in S
RECURSIVE SumOver(_, _)
SumOver(S, f) ==
    IF S = {} THEN 0
    ELSE LET i == CHOOSE x \in S : TRUE IN f[i] + SumOver(S \ {i}, f)

MaxOver(S, f) ==
    IF S = {} THEN 0 ELSE f[CHOOSE i \in S : \A k \in S : f[k] <= f[i]]

RepsAt == [i \in Ids(sets) |-> sets[i].reps]

WeightAt == [i \in Ids(sets) |-> sets[i].weight_lbs]

VolumeAt == [i \in Ids(sets) |-> sets[i].reps * sets[i].weight_lbs]

\* C10: a 200 answer of get_exercise_history for the id of a row named n has
\* one history entry per exercise row named n; each entry's totals and maxima
\* are those of that row's sets, and the statistics are the same aggregates
\* over the sets of all those rows (0 for the maxima when there are none).
C10_HistoryAggregates ==
    (reply.op = "get_exercise_history" /\ reply.status = 200)
    => LET n == exercises[reply.exercise_id].exercise_name
           rows == {i \in Ids(exercises) : exercises[i].exercise_name = n}
           h == reply.history
           all == UNION {SetIdsOf(e) : e \in rows}
       IN /\ reply.exercise_name = n
          /\ Len(h) = Cardinality(rows)
          /\ {h[i].exercise_id : i \in 1 .. Len(h)} = rows
          /\ \A i \in 1 .. Len(h) :
               LET mine == SetIdsOf(h[i].exercise_id)
               IN /\ h[i].workout_id = exercises[h[i].exercise_id].workout_id
                  /\ h[i].total_sets = Cardinality(mine)
                  /\ h[i].total_reps = SumOver(mine, RepsAt)
                  /\ h[i].total_volume = SumOver(mine, VolumeAt)
                  /\ h[i].max_weight = MaxOver(mine, WeightAt)
                  /\ h[i].max_reps = MaxOver(mine, RepsAt)
          /\ reply.statistics.total_sets = Cardinality(all)
          /\ reply.statistics.total_reps = SumOver(all, RepsAt)
          /\ reply.statistics.total_volume = SumOver(all, VolumeAt)
          /\ reply.statistics.max_weight_ever = MaxOver(all, WeightAt)
          /\ reply.statistics.max_reps_ever = MaxOver(all, RepsAt)

C10_Witness ==
    /\ reply.op = "get_exercise_history" /\ reply.status = 200
    /\ Len(reply.history) = 2
    /\ reply.history[1].workout_id # reply.history[2].workout_id
    /\ reply.history[1].total_sets = 2 /\ reply.history[2].total_sets = 1
    /\ reply.history[1].max_weight < reply.statistics.max_weight_ever
    /\ reply.statistics.total_volume > reply.history[1].total_volume
    /\ Len(exercises) > 2

\* the body is a JSON object with the configured key and a text that is not
\* blank: the request gets as far as the parsing step
ReachesParser(body) ==
    /\ body \in LogBodies
    /\ ~BadKey(BodyKey(body))
    /\ Strip(Get(body, "text", << >>)) # << >>

\* C11: a log-workout request whose parsing step fails is answered 500 in the
\* step that called the model, the model was called exactly once by it, no row
\* is written and no request is left to write one later; a request whose
\* parsing step succeeds called the model exactly once too, and no other step
\* calls it.
C11_ParseFailureAnswered500 ==
    [][ /\ \A p \in Procs, body \in LogBodies :
             (reply'.op \in {"log_workout", "none"}
                /\ ReachesParser(body) /\ log_workout(p, body))
             => /\ gemini_calls' = 1
                /\ reply' # NoReply
                   => /\ reply' = Response("log_workout", 500)
                      /\ store' = store
                      /\ proc' = proc
                      /\ nlogs' = nlogs
        /\ gemini_calls' # 0
           => \E p \in Procs, body \in LogBodies :
                ReachesParser(body) /\ log_workout(p, body) ]_vars

C11_Witness ==
    /\ reply = Response("log_workout", 500)
    /\ gemini_calls = 1
    /\ Len(sets) > 0
    /\ \E p \in Procs : proc[p].pc = "sets"
    /\ \E p \in Procs : proc[p].pc = "idle"

\* a JSON object with the configured key whose text is missing, empty or blank
BlankText(body) ==
    /\ body \in LogBodies
    /\ body # EmptyDict
    /\ ~BadKey(BodyKey(body))
    /\ Strip(Get(body, "text", << >>)) = << >>

\* the step answers 400 without calling the parser or touching the store
Refused400 ==
    /\ reply' = Response("log_workout", 400)
    /\ gemini_calls' = 0
    /\ store' = store
    /\ proc' = proc

\* a request with the configured key and a missing, empty or blank text is
\* refused with 400
BlankTextRefused ==
    \A p \in Procs, body \in LogBodies :
        (reply'.op \in {"log_workout", "none"} /\ BlankText(body) /\ log_workout(p, body))
        => Refused400

\* every log-workout response is 200, 400, 401 or 500, and 200 is the answer
\* of a request that wrote all its exercises and sets
StatusesOfLogWorkout ==
    reply'.op = "log_workout"
    => /\ reply'.status \in {200, 400, 401, 500}
       /\ reply'.status = 200
          => \E p \in Procs :
               /\ proc[p].pc = "return"
               /\ proc'[p].pc = "done"
               /\ reply'.workout_id = proc[p].workout_id
               /\ WroteAllOnto(p, proc[p].workout_id)
               /\ store' = store

\* C12 as stated: a log-workout request with the configured key and a missing,
\* empty or blank text, and a log-workout request without a JSON body, are
\* answered 400, the parser not called and the store unchanged; every
\* log-workout response is 200, 400, 401 or 500, and 200 only follows the
\* success of all writes of the request.
C12_BadInputAnswered400 ==
    [][ /\ BlankTextRefused
        /\ StatusesOfLogWorkout
        /\ \A p \in Procs :
             (reply'.op = "log_workout" /\ log_workout(p, NoJsonBody)) => Refused400 ]_vars

\* the parts of C12 that do not concern a request without a JSON body
BlankTextAndStatuses == [][BlankTextRefused /\ StatusesOfLogWorkout]_vars

RowsNamed(n) == {i \in Ids(exercises) : exercises[i].exercise_name = n}

SetIdsNamed(n) == UNION {SetIdsOf(i) : i \in RowsNamed(n)}

\* the date of the workout of exercise row i
DateOfRow(i) == workouts[exercises[i].workout_id].date

\* C14: a 200 answer of get_all_exercises lists every stored exercise name
\* once; for each, pr_weight is the greatest weight among all sets of all rows
\* of that name (0 when there is none or all are 0), pr_date is null exactly
\* when pr_weight is 0, and otherwise is the date of a workout holding a set of
\* that name at pr_weight; this holds whatever order the store returned the
\* rows in.
C14_PrIsMaxWeight ==
    (reply.op = "get_all_exercises" /\ reply.status = 200)
    => /\ {e.name : e \in reply.body} = {exercises[i].exercise_name : i \in Ids(exercises)}
       /\ \A e, f \in reply.body : e.name = f.name => e = f
       /\ \A e \in reply.body :
            /\ e.pr_weight = MaxOver(SetIdsNamed(e.name), WeightAt)
            /\ (e.pr_date = Null) <=> (e.pr_weight = 0)
            /\ e.pr_date # Null
               => \E i \in RowsNamed(e.name) : \E k \in SetIdsOf(i) :
                    /\ sets[k].weight_lbs = e.pr_weight
                    /\ Some(DateOfRow(i)) = e.pr_date

C14_Witness ==
    /\ reply.op = "get_all_exercises" /\ reply.status = 200
    /\ \E e \in reply.body :
         /\ e.pr_weight = 3
         /\ \E i, j \in RowsNamed(e.name) :
              /\ i < j
              /\ DateOfRow(i) # DateOfRow(j)
              /\ Some(DateOfRow(i)) = e.pr_date
              /\ \E k \in SetIdsOf(j) : sets[k].weight_lbs = 2
    /\ \E e \in reply.body : e.pr_weight = 0 /\ e.pr_date = Null

\* consecutive entries of q have dates that do not increase
NewestFirst(q) == \A i \in 1 .. (Len(q) - 1) : q[i].date >= q[i + 1].date

\* C15: the history of a 200 answer of get_exercise_history, and the history
\* of every exercise of a 200 answer of get_all_exercises, list their entries
\* by date, newest first.
C15_HistoryNewestFirst ==
    /\ (reply.op = "get_exercise_history" /\ reply.status = 200)
       => NewestFirst(reply.history)
    /\ (reply.op = "get_all_exercises" /\ reply.status = 200)
       => \A e \in reply.body : NewestFirst(e.history)

C15_Witness ==
    /\ reply.op = "get_exercise_history" /\ reply.status = 200
    /\ Len(reply.history) > 1
    /\ reply.history[1].date > reply.history[2].date
    /\ reply.history[1].exercise_id > reply.history[2].exercise_id

\* the set rows of the exercise rows of name n that fall on date d
SetIdsOn(n, d) == UNION {SetIdsOf(i) : i \in {j \in RowsNamed(n) : DateOfRow(j) = d}}

\* every exercise of the answer has one entry per date, counted by
\* total_sessions, whose total_sets and volume are those of all sets of the
\* name on that date
SessionTotals ==
    (reply.op = "get_all_exercises" /\ reply.status = 200)
    => \A e \in reply.body :
         /\ \A i, j \in 1 .. Len(e.history) :
              e.history[i].date = e.history[j].date => i = j
         /\ {e.history[i].date : i \in 1 .. Len(e.history)}
                = {DateOfRow(i) : i \in RowsNamed(e.name)}
         /\ e.total_sessions = Len(e.history)
         /\ \A i \in 1 .. Len(e.history) :
              LET on == SetIdsOn(e.name, e.history[i].date)
              IN /\ e.history[i].total_sets = Cardinality(on)
                 /\ e.history[i].volume = SumOver(on, VolumeAt)

\* the weight and reps of every entry are those of a heaviest set of the name
\* on the entry's date
SessionTopSet ==
    (reply.op = "get_all_exercises" /\ reply.status = 200)
    => \A e \in reply.body : \A i \in 1 .. Len(e.history) :
         LET on == SetIdsOn(e.name, e.history[i].date)
         IN /\ e.history[i].weight = MaxOver(on, WeightAt)
            /\ IF on = {} THEN e.history[i].reps = 0
               ELSE \E k \in on : /\ sets[k].weight_lbs = e.history[i].weight
                                   /\ sets[k].reps = e.history[i].reps

\* C16: in a 200 answer of get_all_exercises every exercise has at most one
\* history entry per date and total_sessions counts its entries; the entry of
\* a date aggregates all exercise rows of the name on that date: total_sets
\* and volume are the count and the sum of weight*reps of all their sets, and
\* weight and reps are those of the heaviest of all their sets.
C16_OneSessionPerDate == SessionTotals /\ SessionTopSet

\* the workouts that hold an exercise row of name n
WorkoutsWith(n) == {exercises[i].workout_id : i \in RowsNamed(n)}

\* C17: in a 200 answer of get_exercise_history, total_workouts is the number
\* of distinct workouts that hold an exercise row of the requested exercise's
\* name.
C17_TotalWorkoutsDistinct ==
    (reply.op = "get_exercise_history" /\ reply.status = 200)
    => reply.statistics.total_workouts = Cardinality(WorkoutsWith(reply.exercise_name))

\* total_workouts is the number of exercise rows of the name
TotalWorkoutsCountsRows ==
    (reply.op = "get_exercise_history" /\ reply.status = 200)
    => reply.statistics.total_workouts = Cardinality(RowsNamed(reply.exercise_name))

\* the rows a step added to a table
Added(new, old) == {new[i] : i \in (Len(old) + 1) .. Len(new)}

\* C18: no step deletes or changes a row of any table; a log-workout request
\* that finds a workout of its date leaves every stored row as it is (the
\* workout row keeps its date, duration, type and notes, whatever the request
\* carries) and only adds exercise rows of that workout and set rows of those;
\* the three read endpoints leave the store unchanged.
C18_ExistingRowsUntouched ==
    [][ /\ Extends(workouts', workouts)
        /\ Extends(exercises', exercises)
        /\ Extends(sets', sets)
        /\ \A p \in Procs :
             /\ (proc[p].pc = "select" /\ proc'[p] # proc[p]
                   /\ WorkoutIdsOn(proc[p].workout_data.date) # {})
                => /\ store' = store
                   /\ ~proc'[p].created
                   /\ proc'[p].status # 500
                      => proc'[p].workout_id \in WorkoutIdsOn(proc[p].workout_data.date)
             /\ (proc[p].pc \in {"exercises", "sets", "return"} /\ proc'[p] # proc[p]
                   /\ ~proc[p].created)
                => /\ workouts' = workouts
                   /\ ~proc'[p].created
                   /\ \A x \in Added(exercises', exercises) :
                        x.workout_id = proc[p].workout_id
                   /\ \A r \in Added(sets', sets) :
                        r.exercise_id = proc[p].exercise_id
                          /\ r.exercise_id \in Range(proc[p].wrote)
        /\ reply'.op \in {"get_all_workouts", "get_exercise_history", "get_all_exercises"}
           => (store' = store /\ proc' = proc) ]_vars

C18_Witness ==
    \E p, q \in Procs :
        /\ Done(p, 200) /\ proc[p].created
        /\ Done(q, 200) /\ ~proc[q].created
        /\ proc[q].workout_id = proc[p].workout_id
        /\ "duration_minutes" \in DOMAIN proc[q].workout_data
        /\ workouts[proc[q].workout_id] = WorkoutRow(proc[p].workout_id, proc[p].workout_data)
        /\ workouts[proc[q].workout_id].duration_minutes = Null
        /\ workouts[proc[q].workout_id].workout_type = "strength"
        /\ Len(proc[q].wrote) = 2
        /\ reply.op = "get_all_workouts"

====
